---- MODULE Spec2Model ----
(***************************************************************************)
(* A model of klepto's reader factory (pkg/reader/reader.go) and of the    *)
(* MySQL structure dumper (package database).                              *)
(*                                                                         *)
(*   SpecConnect  Connect: the walk over the driver registry               *)
(*   SpecOpt      NewReadTableOpt / NewBlankReadTableOpt                   *)
(*   SpecDump     MySQLDumper.DumpStructure with getPreamble, getTables    *)
(*                and getTableStructure                                    *)
(*                                                                         *)
(* The three parts share no state; each specification leaves the other     *)
(* parts' variables at their initial values.                               *)
(***************************************************************************)
EXTENDS Integers, Sequences, FiniteSets

VARIABLES
    \* ---- Connect ----
    drivers,     \* the registry, as a sequence in registration order
    dsn,         \* opts.DSN of the call
    cpc,         \* position of the Connect call
    visited,     \* registry entries Range has already passed to the callback
    order,       \* the entries in the order Range yielded them
    consulted,   \* entries whose IsSupported was called, in order
    newConns,    \* entries whose NewConnection was called, in order
    reader,      \* named result: 0 is nil, i is the Reader built by entry i
    err,         \* named result: an error value (NilErr is nil)
    \* ---- NewReadTableOpt / NewBlankReadTableOpt ----
    tableCfg,    \* the *config.Table argument
    called,      \* which constructor has run
    opt,         \* the ReadTableOpt it returned
    \* ---- DumpStructure ----
    catalog,     \* rows of SHOW FULL TABLES, in the order the server sends them
    dpc,         \* position of the DumpStructure call
    rowIdx,      \* rows of the listing consumed so far
    tables,      \* getTables' result under construction
    tblIdx,      \* tables whose loop body has completed
    w,           \* the Write calls made on the stream, in order
    derr,        \* DumpStructure's returned error
    qfail        \* the first failure the database reported to the dumper

connectVars == <<drivers, dsn, cpc, visited, order, consulted, newConns, reader, err>>
optVars     == <<tableCfg, called, opt>>
dumpVars    == <<catalog, dpc, rowIdx, tables, tblIdx, w, derr, qfail>>
vars        == <<connectVars, optVars, dumpVars>>

\* Bounds of the model.
MaxDrivers == 3
MaxSubsets == 2
MaxRels    == 2
MaxTables  == 3

SeqsUpTo(S, n) == UNION {[1..k -> S] : k \in 0..n}

(***************************************************************************)
(* Connect                                                                 *)
(***************************************************************************)

\* The addresses a call may carry, and the scheme each driver recognises.
DSNs == {"mysql", "pgsql"}

\* A registry value.  isDriver is the outcome of the assertion value.(Driver)
\* (a nil driver stored in the registry fails it); scheme decides IsSupported;
\* connects decides whether NewConnection succeeds.
Entries ==
    {[isDriver |-> FALSE, scheme |-> "", connects |-> FALSE]}
    \cup [isDriver : {TRUE}, scheme : DSNs, connects : BOOLEAN]

NilErr         == [kind |-> "nil", driver |-> 0]
UnsupportedErr == [kind |-> "unsupported dsn", driver |-> 0]
ConnErr(i)     == [kind |-> "connection", driver |-> i]

IsSupported(d, s) == d.scheme = s

\* driver.NewConnection(opts) of registry entry i.
NewConnection(i) ==
    IF drivers[i].connects
    THEN [reader |-> i, err |-> NilErr]
    ELSE [reader |-> 0, err |-> ConnErr(i)]

\* The entries drivers.Range may pass to the callback next.  The registry is
\* ranged with a func(key, value interface{}) bool callback, the Range of a
\* sync.Map, which promises no iteration order: any entry not yet visited.
RangeNext == (1..Len(drivers)) \ visited

CallbackSkipsNonDriversOnlyM(d, s) == ~d.isDriver
\* Line 122: the callback skips the entry and lets Range continue.
CallbackSkips(d, s) == ~d.isDriver \/ ~IsSupported(d, s)

ContinueAfterConnectM == TRUE
\* Line 127: what the callback returns after NewConnection (false stops Range).
ContinueAfterConnect == FALSE

KeepErrM(r, e) == e
\* Lines 130-132: a nil reader makes the error "unsupported dsn".
FinalErr(r, e) == IF r = 0 THEN UnsupportedErr ELSE e

IdleConnect ==
    /\ dsn = ""
    /\ cpc = "idle"
    /\ visited = {}
    /\ order = <<>>
    /\ consulted = <<>>
    /\ newConns = <<>>
    /\ reader = 0
    /\ err = NilErr

\* Connect(opts) is entered: the named results start as nil.
ConnectCall ==
    /\ cpc = "idle"
    /\ \E s \in DSNs : dsn' = s
    /\ cpc' = "range"
    /\ UNCHANGED <<drivers, visited, order, consulted, newConns, reader, err>>
    /\ UNCHANGED <<optVars, dumpVars>>

\* One invocation of the Range callback, on entry i.
RangeFunc(i) ==
    /\ cpc = "range"
    /\ i \in RangeNext
    /\ visited' = visited \cup {i}
    /\ order' = Append(order, i)
    /\ consulted' = IF drivers[i].isDriver THEN Append(consulted, i) ELSE consulted
    /\ IF CallbackSkips(drivers[i], dsn)
       THEN /\ UNCHANGED <<newConns, reader, err>>
            /\ cpc' = "range"
       ELSE /\ newConns' = Append(newConns, i)
            /\ reader' = NewConnection(i).reader
            /\ err' = NewConnection(i).err
            /\ cpc' = IF ContinueAfterConnect THEN "range" ELSE "after"
    /\ UNCHANGED <<drivers, dsn>>
    /\ UNCHANGED <<optVars, dumpVars>>

\* Range has passed every entry to the callback.
RangeEnd ==
    /\ cpc = "range"
    /\ RangeNext = {}
    /\ cpc' = "after"
    /\ UNCHANGED <<drivers, dsn, visited, order, consulted, newConns, reader, err>>
    /\ UNCHANGED <<optVars, dumpVars>>

\* Lines 130-134.
ConnectReturn ==
    /\ cpc = "after"
    /\ err' = FinalErr(reader, err)
    /\ cpc' = "returned"
    /\ UNCHANGED <<drivers, dsn, visited, order, consulted, newConns, reader>>
    /\ UNCHANGED <<optVars, dumpVars>>

NextConnect ==
    \/ ConnectCall
    \/ \E i \in 1..MaxDrivers : RangeFunc(i)
    \/ RangeEnd
    \/ ConnectReturn

(***************************************************************************)
(* NewReadTableOpt / NewBlankReadTableOpt                                  *)
(***************************************************************************)

\* config.Relationship values of the configuration.
CfgRelationships ==
    { [Table |-> "orders", ForeignKey |-> "user_id",
       ReferencedTable |-> "users", ReferencedKey |-> "id"],
      [Table |-> "order_items", ForeignKey |-> "order_id",
       ReferencedTable |-> "orders", ReferencedKey |-> "oid"] }

\* config.Filter values.  Sorts (a map column -> direction) is a set of pairs.
CfgFilters ==
    { [Match |-> "", Sorts |-> {}, Limit |-> 0],
      [Match |-> "users.active = 1", Sorts |-> {<<"users.id", "desc">>}, Limit |-> 10] }

CfgNames == {"recent", "_default"}

\* config.Subset values.
CfgSubsets ==
    [Name : CfgNames, Filter : CfgFilters,
     Relationships : SeqsUpTo(CfgRelationships, MaxRels)]

\* config.Table values, reduced to the field NewReadTableOpt reads.
CfgTables == [Subsets : SeqsUpTo(CfgSubsets, MaxSubsets)]

NoCfg == [Subsets |-> <<>>]
NoOpt == [Columns |-> <<>>, Subsets |-> <<>>]

NewRelationshipOptSwappedM(r) ==
    [Table           |-> r.Table,
     ReferencedTable |-> r.ReferencedTable,
     ReferencedKey   |-> r.ForeignKey,
     ForeignKey      |-> r.ReferencedKey]
\* Lines 92-97: the RelationshipOpt built from one configured relationship.
NewRelationshipOpt(r) ==
    [Table           |-> r.Table,
     ReferencedTable |-> r.ReferencedTable,
     ReferencedKey   |-> r.ReferencedKey,
     ForeignKey      |-> r.ForeignKey]

\* Lines 89-98: rOpts, slot j filled from relationship j by the inner loop.
RelationshipOpts(rels) ==
    [j \in 1..Len(rels) |-> NewRelationshipOpt(rels[j])]

\* Lines 100-106: the SubsetOpt built from one configured subset.
NewSubsetOpt(s) ==
    [Name          |-> s.Name,
     Match         |-> s.Filter.Match,
     Sorts         |-> s.Filter.Sorts,
     Limit         |-> s.Filter.Limit,
     Relationships |-> RelationshipOpts(s.Relationships)]

\* Lines 85-112: sOpts has len(tableCfg.Subsets) slots, slot i filled from
\* subset i by the outer loop (the inner loop's i is its own variable).
\* Columns is left at its zero value.
NewReadTableOpt(cfg) ==
    [Columns |-> <<>>,
     Subsets |-> [i \in 1..Len(cfg.Subsets) |-> NewSubsetOpt(cfg.Subsets[i])]]

NewBlankReadTableOptRenamedM ==
    [Columns |-> <<>>,
     Subsets |-> << [Name |-> "default", Match |-> "", Sorts |-> {},
                     Limit |-> 0, Relationships |-> <<>>] >>]
\* Lines 114-116: one SubsetOpt with only Name set; the other fields are zero
\* values (empty string, nil map, 0, nil slice).
NewBlankReadTableOpt ==
    [Columns |-> <<>>,
     Subsets |-> << [Name |-> "_default", Match |-> "", Sorts |-> {},
                     Limit |-> 0, Relationships |-> <<>>] >>]

IdleOpt ==
    /\ called = "none"
    /\ opt = NoOpt

CallNewReadTableOpt ==
    /\ called = "none"
    /\ called' = "NewReadTableOpt"
    /\ opt' = NewReadTableOpt(tableCfg)
    /\ UNCHANGED tableCfg
    /\ UNCHANGED <<connectVars, dumpVars>>

CallNewBlankReadTableOpt ==
    /\ called = "none"
    /\ called' = "NewBlankReadTableOpt"
    /\ opt' = NewBlankReadTableOpt
    /\ UNCHANGED tableCfg
    /\ UNCHANGED <<connectVars, dumpVars>>

NextOpt ==
    \/ CallNewReadTableOpt
    \/ CallNewBlankReadTableOpt

(***************************************************************************)
(* MySQLDumper.DumpStructure                                               *)
(*                                                                         *)
(* The database is the environment: every query may succeed or fail, the   *)
(* listing delivers the rows of catalog one at a time, and every Write on  *)
(* the stream may succeed or fail.  Tables are named by their position in  *)
(* the catalog.  The preamble text (host, database, timestamp) is one      *)
(* opaque value; host and database names hold no formatting verbs, so      *)
(* fmt.Fprintf(w, preamble) writes it unchanged.                           *)
(***************************************************************************)

TableTypes == {"BASE TABLE", "VIEW"}

Catalogs ==
    UNION { { [k \in 1..n |-> [name |-> k, type |-> ty[k]]] : ty \in [1..n -> TableTypes] }
            : n \in 0..MaxTables }

NoErr        == [at |-> "none", k |-> 0]
QErr(at, k)  == [at |-> at, k |-> k]

\* What is handed to the stream.
Preamble      == [kind |-> "preamble", table |-> 0]
CreateStmt(t) == [kind |-> "create", table |-> t]
Newline       == [kind |-> "newline", table |-> 0]
FkChecksOn    == [kind |-> "fk_checks_on", table |-> 0]

\* One fmt.Fprintf / fmt.Fprintln on w: the Write call is made, its result
\* (ok) is discarded by the caller.
Fprint(data, ok) == Append(w, [data |-> data, ok |-> ok])

AnyTypeM(row) == TRUE
\* Line 67.
IsBaseTable(row) == row.type = "BASE TABLE"

IdleDump ==
    /\ dpc = "start"
    /\ rowIdx = 0
    /\ tables = <<>>
    /\ tblIdx = 0
    /\ w = <<>>
    /\ derr = NoErr
    /\ qfail = NoErr

\* A query's error reaches DumpStructure's caller: bare return with err set.
ReturnErr(e) ==
    /\ derr' = e
    /\ qfail' = e
    /\ dpc' = "done"

\* Lines 37-41: SELECT @@hostname.
QueryHostname ==
    /\ dpc = "start"
    /\ \/ /\ dpc' = "database"
          /\ UNCHANGED <<derr, qfail>>
       \/ ReturnErr(QErr("hostname", 0))
    /\ UNCHANGED <<catalog, rowIdx, tables, tblIdx, w>>
    /\ UNCHANGED <<connectVars, optVars>>

\* Lines 44-50: SELECT DATABASE().
QueryDatabase ==
    /\ dpc = "database"
    /\ \/ /\ dpc' = "writePreamble"
          /\ UNCHANGED <<derr, qfail>>
       \/ ReturnErr(QErr("database", 0))
    /\ UNCHANGED <<catalog, rowIdx, tables, tblIdx, w>>
    /\ UNCHANGED <<connectVars, optVars>>

\* Line 91.
WritePreamble ==
    /\ dpc = "writePreamble"
    /\ \E ok \in BOOLEAN : w' = Fprint(Preamble, ok)
    /\ dpc' = "showTables"
    /\ UNCHANGED <<catalog, rowIdx, tables, tblIdx, derr, qfail>>
    /\ UNCHANGED <<connectVars, optVars>>

\* Lines 57-59: SHOW FULL TABLES.
QueryTables ==
    /\ dpc = "showTables"
    /\ \/ /\ dpc' = "rows"
          /\ UNCHANGED <<derr, qfail>>
       \/ ReturnErr(QErr("tables", 0))
    /\ UNCHANGED <<catalog, rowIdx, tables, tblIdx, w>>
    /\ UNCHANGED <<connectVars, optVars>>

\* Lines 62-70, one turn of the loop: rows.Next() delivers the next row and
\* rows.Scan reads it.
RowsNext ==
    /\ dpc = "rows"
    /\ rowIdx < Len(catalog)
    /\ \/ /\ rowIdx' = rowIdx + 1
          /\ tables' = IF IsBaseTable(catalog[rowIdx + 1])
                       THEN Append(tables, catalog[rowIdx + 1].name)
                       ELSE tables
          /\ UNCHANGED <<dpc, derr, qfail>>
       \/ /\ ReturnErr(QErr("scan", rowIdx + 1))
          /\ UNCHANGED <<rowIdx, tables>>
    /\ UNCHANGED <<catalog, tblIdx, w>>
    /\ UNCHANGED <<connectVars, optVars>>

\* Line 62, rows.Next() returns false after the last row: the loop ends.
RowsEnd ==
    /\ dpc = "rows"
    /\ rowIdx = Len(catalog)
    /\ dpc' = "loop"
    /\ UNCHANGED <<catalog, rowIdx, tables, tblIdx, w, derr, qfail>>
    /\ UNCHANGED <<connectVars, optVars>>

\* Line 62, rows.Next() returns false because fetching the next row failed.
\* The error is held by rows.Err(), which getTables never reads: the loop
\* ends as it does after the last row and err stays nil (line 71).
RowsError ==
    /\ dpc = "rows"
    /\ qfail' = QErr("rows", rowIdx + 1)
    /\ dpc' = "loop"
    /\ UNCHANGED <<catalog, rowIdx, tables, tblIdx, w, derr>>
    /\ UNCHANGED <<connectVars, optVars>>

\* Lines 99-103 (getTableStructure, lines 75-83): SHOW CREATE TABLE.
QueryTableStructure ==
    /\ dpc = "loop"
    /\ tblIdx < Len(tables)
    /\ \/ /\ dpc' = "writeStmt"
          /\ UNCHANGED <<derr, qfail>>
       \/ /\ derr' = QErr("structure", tblIdx + 1)
          /\ qfail' = IF qfail = NoErr THEN QErr("structure", tblIdx + 1) ELSE qfail
          /\ dpc' = "done"
    /\ UNCHANGED <<catalog, rowIdx, tables, tblIdx, w>>
    /\ UNCHANGED <<connectVars, optVars>>

\* Line 105.
WriteTableStructure ==
    /\ dpc = "writeStmt"
    /\ \E ok \in BOOLEAN : w' = Fprint(CreateStmt(tables[tblIdx + 1]), ok)
    /\ dpc' = "writeBlank"
    /\ UNCHANGED <<catalog, rowIdx, tables, tblIdx, derr, qfail>>
    /\ UNCHANGED <<connectVars, optVars>>

\* Line 106, and the loop moves to the next table.
WriteTableNewline ==
    /\ dpc = "writeBlank"
    /\ \E ok \in BOOLEAN : w' = Fprint(Newline, ok)
    /\ tblIdx' = tblIdx + 1
    /\ dpc' = "loop"
    /\ UNCHANGED <<catalog, rowIdx, tables, derr, qfail>>
    /\ UNCHANGED <<connectVars, optVars>>

\* Line 109, once the loop over tables has ended.
WriteNewline ==
    /\ dpc = "loop"
    /\ tblIdx = Len(tables)
    /\ \E ok \in BOOLEAN : w' = Fprint(Newline, ok)
    /\ dpc' = "writeFooter"
    /\ UNCHANGED <<catalog, rowIdx, tables, tblIdx, derr, qfail>>
    /\ UNCHANGED <<connectVars, optVars>>

\* Lines 110-111.
WriteFkChecksOn ==
    /\ dpc = "writeFooter"
    /\ \E ok \in BOOLEAN : w' = Fprint(FkChecksOn, ok)
    /\ derr' = NoErr
    /\ dpc' = "done"
    /\ UNCHANGED <<catalog, rowIdx, tables, tblIdx, qfail>>
    /\ UNCHANGED <<connectVars, optVars>>

NextDump ==
    \/ QueryHostname
    \/ QueryDatabase
    \/ WritePreamble
    \/ QueryTables
    \/ RowsNext
    \/ RowsEnd
    \/ RowsError
    \/ QueryTableStructure
    \/ WriteTableStructure
    \/ WriteTableNewline
    \/ WriteNewline
    \/ WriteFkChecksOn

(***************************************************************************)
(* Specifications                                                          *)
(***************************************************************************)

InitConnect ==
    /\ drivers \in SeqsUpTo(Entries, MaxDrivers)
    /\ IdleConnect
    /\ tableCfg = NoCfg /\ IdleOpt
    /\ catalog = <<>> /\ IdleDump

InitOpt ==
    /\ tableCfg \in CfgTables
    /\ IdleOpt
    /\ drivers = <<>> /\ IdleConnect
    /\ catalog = <<>> /\ IdleDump

InitDump ==
    /\ catalog \in Catalogs
    /\ IdleDump
    /\ drivers = <<>> /\ IdleConnect
    /\ tableCfg = NoCfg /\ IdleOpt

SpecConnect == InitConnect /\ [][NextConnect]_vars
SpecOpt     == InitOpt /\ [][NextOpt]_vars
SpecDump    == InitDump /\ [][NextDump]_vars

(***************************************************************************)
(* Claims about Connect (SpecConnect)                                      *)
(***************************************************************************)

\* Entry i is a driver whose IsSupported(opts.DSN) is true.
Supports(i) == drivers[i].isDriver /\ drivers[i].scheme = dsn

Supporting == {i \in 1..Len(drivers) : Supports(i)}

EarliestRegistered == CHOOSE i \in Supporting : \A j \in Supporting : i <= j

\* The Reader entry i hands out: its own on success, nil on failure.
ReaderOf(i) == IF drivers[i].connects THEN i ELSE 0

\* C1, as stated: when some driver supports the DSN, Connect has called
\* NewConnection on the earliest-registered supporting driver and returns
\* the Reader that call produced.
C1_EarliestRegisteredWins ==
    (cpc = "returned" /\ Supporting # {})
        => /\ newConns = <<EarliestRegistered>>
           /\ reader = ReaderOf(EarliestRegistered)

\* C1, amended: the drivers are visited in the order Range yields them, and
\* Connect returns the Reader of the first yielded driver that supports the
\* DSN: every driver yielded before it does not support the DSN, it is the
\* one driver NewConnection was called on, and the Reader returned is the
\* one that call produced.
C1_FirstYieldedWins ==
    (cpc = "returned" /\ Supporting # {})
        => \E p \in 1..Len(order) :
              /\ Supports(order[p])
              /\ \A q \in 1..(p - 1) : ~Supports(order[q])
              /\ newConns = <<order[p]>>
              /\ reader = ReaderOf(order[p])

\* Two drivers support the DSN and the Reader returned is not the
\* earliest-registered one's.
C1_Witness ==
    /\ cpc = "returned"
    /\ Cardinality(Supporting) >= 2
    /\ reader # 0
    /\ reader # EarliestRegistered

\* C2: when no registered driver supports the DSN (the registry may be
\* empty), Connect returns a nil Reader and the unsupported-dsn error, and
\* NewConnection has been called on no driver.
C2_UnsupportedWhenNoMatch ==
    (cpc = "returned" /\ Supporting = {})
        => /\ reader = 0
           /\ err = UnsupportedErr
           /\ newConns = <<>>

\* A registry with drivers, none supporting the DSN, after Connect returned.
C2_Witness ==
    /\ cpc = "returned"
    /\ Supporting = {}
    /\ Len(drivers) >= 2
    /\ \A i \in 1..Len(drivers) : drivers[i].isDriver
    /\ Len(consulted) = Len(drivers)

\* C3, as stated: when a supporting driver's NewConnection failed (nil
\* Reader and an error), the error Connect returns is that connection error.
C3_ConnectionErrorReturned ==
    (/\ cpc = "returned"
     /\ Len(newConns) > 0
     /\ ~drivers[newConns[1]].connects)
        => err = ConnErr(newConns[1])

\* C4: at every point of a Connect call NewConnection has been called on at
\* most one driver, and a supporting driver is the last entry visited and
\* the last one whose IsSupported was called, whether or not its
\* NewConnection succeeded; once it was called, Range has stopped.
C4_AtMostOneConnection ==
    /\ Len(newConns) <= 1
    /\ \A p \in 1..Len(order) : Supports(order[p]) => p = Len(order)
    /\ \A p \in 1..Len(consulted) : Supports(consulted[p]) => p = Len(consulted)
    /\ Len(newConns) = 1 => cpc \in {"after", "returned"}

\* Several drivers support the DSN, the one found first failed to connect,
\* and another entry was never visited.
C4_Witness ==
    /\ cpc = "returned"
    /\ Cardinality(Supporting) >= 2
    /\ Len(newConns) = 1
    /\ ~drivers[newConns[1]].connects
    /\ Len(order) < Len(drivers)

(***************************************************************************)
(* Claims about NewReadTableOpt / NewBlankReadTableOpt (SpecOpt)           *)
(***************************************************************************)

\* C5, as stated: built from a table configuration with no subsets,
\* NewReadTableOpt's result carries the single "_default" subset with empty
\* match, no sorts, limit 0 and no relationships, as NewBlankReadTableOpt's.
C5_EmptyConfigGivesDefault ==
    (called = "NewReadTableOpt" /\ Len(tableCfg.Subsets) = 0)
        => /\ Len(opt.Subsets) = 1
           /\ opt.Subsets = << [Name |-> "_default", Match |-> "", Sorts |-> {},
                                Limit |-> 0, Relationships |-> <<>>] >>

\* C6: NewBlankReadTableOpt returns exactly one subset, named "_default",
\* with empty match, empty sorts, limit 0 and no relationships.
C6_BlankIsDefaultSubset ==
    called = "NewBlankReadTableOpt"
        => /\ Len(opt.Subsets) = 1
           /\ opt.Subsets[1].Name = "_default"
           /\ opt.Subsets[1].Match = ""
           /\ opt.Subsets[1].Sorts = {}
           /\ opt.Subsets[1].Limit = 0
           /\ Len(opt.Subsets[1].Relationships) = 0

\* NewBlankReadTableOpt has returned, whatever the table configuration.
C6_Witness ==
    /\ called = "NewBlankReadTableOpt"
    /\ Len(tableCfg.Subsets) > 0
    /\ Len(opt.Subsets) = 1

\* C8: NewReadTableOpt's result has as many subsets as the configuration,
\* subset i carrying the name, match, sorts and limit of configured subset
\* i and as many relationships, relationship j carrying Table, ForeignKey,
\* ReferencedTable and ReferencedKey of configured relationship j of
\* subset i.
C8_FaithfulTranslation ==
    called = "NewReadTableOpt"
        => /\ Len(opt.Subsets) = Len(tableCfg.Subsets)
           /\ \A i \in 1..Len(tableCfg.Subsets) :
                LET s == tableCfg.Subsets[i]
                    o == opt.Subsets[i]
                IN  /\ o.Name = s.Name
                    /\ o.Match = s.Filter.Match
                    /\ o.Sorts = s.Filter.Sorts
                    /\ o.Limit = s.Filter.Limit
                    /\ Len(o.Relationships) = Len(s.Relationships)
                    /\ \A j \in 1..Len(s.Relationships) :
                         /\ o.Relationships[j].Table = s.Relationships[j].Table
                         /\ o.Relationships[j].ForeignKey = s.Relationships[j].ForeignKey
                         /\ o.Relationships[j].ReferencedTable
                                = s.Relationships[j].ReferencedTable
                         /\ o.Relationships[j].ReferencedKey
                                = s.Relationships[j].ReferencedKey

\* Two different subsets, the first with two different relationships, the
\* second with fewer: the inner loop's index passes the outer one's.
C8_Witness ==
    /\ called = "NewReadTableOpt"
    /\ Len(tableCfg.Subsets) = 2
    /\ tableCfg.Subsets[1].Name # tableCfg.Subsets[2].Name
    /\ tableCfg.Subsets[1].Filter # tableCfg.Subsets[2].Filter
    /\ Len(tableCfg.Subsets[1].Relationships) = 2
    /\ tableCfg.Subsets[1].Relationships[1] # tableCfg.Subsets[1].Relationships[2]
    /\ Len(tableCfg.Subsets[2].Relationships) < 2
    /\ Len(opt.Subsets) = 2

(***************************************************************************)
(* Claims about DumpStructure (SpecDump)                                   *)
(***************************************************************************)

\* What was handed to the stream, in order.
Data(ws) == [k \in 1..Len(ws) |-> ws[k].data]

\* The rows the listing delivered to getTables.
Reported == SubSeq(catalog, 1, rowIdx)

RECURSIVE BaseTableNames(_)
BaseTableNames(rows) ==
    IF rows = <<>> THEN <<>>
    ELSE (IF Head(rows).type = "BASE TABLE" THEN <<Head(rows).name>> ELSE <<>>)
         \o BaseTableNames(Tail(rows))

\* Creation statements alone, one per table.
CreateStmts(ts) == [k \in 1..Len(ts) |-> CreateStmt(ts[k])]

\* Creation statements, each followed by the newline of line 106.
RECURSIVE StmtBlocks(_)
StmtBlocks(ts) ==
    IF ts = <<>> THEN <<>>
    ELSE <<CreateStmt(Head(ts)), Newline>> \o StmtBlocks(Tail(ts))

\* C7, as stated: if any write to w failed during DumpStructure,
\* DumpStructure returns a non-nil error.
C7_WriteFailureReturned ==
    (dpc = "done" /\ \E k \in 1..Len(w) : ~w[k].ok) => derr # NoErr

\* C9, as stated: on success the writes are the preamble, then exactly one
\* creation statement per table reported as BASE TABLE, in the order
\* reported, then the statement re-enabling foreign-key checks, and nothing
\* else.
C9_OnlyStatementsWritten ==
    (dpc = "done" /\ derr = NoErr)
        => Data(w) = <<Preamble>> \o CreateStmts(BaseTableNames(Reported))
                                  \o <<FkChecksOn>>

\* C9, amended: on success the writes are the preamble, then for each table
\* reported as BASE TABLE, in the order reported, its creation statement
\* followed by a blank line, then one more blank line and the statement
\* re-enabling foreign-key checks, and nothing else; no statement is written
\* for a view.
C9_WriteOrder ==
    (dpc = "done" /\ derr = NoErr)
        => Data(w) = <<Preamble>> \o StmtBlocks(BaseTableNames(Reported))
                                  \o <<Newline, FkChecksOn>>

\* A successful dump of a catalog listing a view between two base tables.
C9_Witness ==
    /\ dpc = "done"
    /\ derr = NoErr
    /\ rowIdx = Len(catalog)
    /\ Len(catalog) >= 3
    /\ catalog[1].type = "BASE TABLE"
    /\ catalog[2].type = "VIEW"
    /\ catalog[3].type = "BASE TABLE"
    /\ Len(w) = 7

\* C10, as stated: when a query failed, DumpStructure returns that error;
\* the stream holds nothing if a preamble query failed, the preamble alone
\* if listing the tables failed, the preamble and the statements of the
\* k-1 tables before it if fetching table k's structure failed; the
\* statement re-enabling foreign-key checks is not written.
C10_QueryFailureReturned ==
    (dpc = "done" /\ qfail # NoErr)
        => /\ derr = qfail
           /\ qfail.at \in {"hostname", "database"} => w = <<>>
           /\ qfail.at \in {"tables", "scan", "rows"} => Data(w) = <<Preamble>>
           /\ qfail.at = "structure"
                => Data(w) = <<Preamble>> \o StmtBlocks(SubSeq(tables, 1, qfail.k - 1))
           /\ \A k \in 1..Len(w) : w[k].data # FkChecksOn

====
